---- MODULE Spec2Model ----
(***************************************************************************)
(* Model of server/src/domain/ldap/user.rs: the translation of an LDAP     *)
(* search filter into a UserRequestFilter (convert_user_filter), the       *)
(* projection of a stored user into an LDAP result entry                   *)
(* (get_user_attribute, make_ldap_search_user_result_entry) and the search *)
(* orchestration (get_user_list, convert_users_to_ldap_op).                *)
(*                                                                         *)
(* Text is modelled by TLA+ strings; a byte vector obtained by into_bytes  *)
(* is the string holding the same (ASCII) bytes.  Option<T> and            *)
(* Result<T, LdapError> are records, see None/Some and Ok/Err.             *)
(***************************************************************************)
EXTENDS Integers, Sequences, FiniteSets, TLC

VARIABLES
    pc,              \* position of the modelled call
    user,            \* projector input: the User record
    groups,          \* projector input: Option<&[GroupDetails]>
    attribute,       \* get_user_attribute input: the attribute name
    attr_result,     \* get_user_attribute output: Option<Vec<Vec<u8>>>
    attributes,      \* requested attribute list
    entry,           \* make_ldap_search_user_result_entry output
    ldap_filter,     \* the LdapFilter to translate
    filters,         \* convert_user_filter output: LdapResult<UserRequestFilter>
    request_groups,  \* get_user_list input: the group-fetch flag
    base,            \* get_user_list input: the label of the search
    backend_calls,   \* list_users invocations seen by the backend, in order
    backend_reply,   \* what list_users answered
    result,          \* get_user_list output: LdapResult<Vec<UserAndGroups>>
    users,           \* convert_users_to_ldap_op: records the iterator still holds
    ops              \* convert_users_to_ldap_op: LdapOps yielded so far

vars == <<pc, user, groups, attribute, attr_result, attributes, entry, ldap_filter,
          filters, request_groups, base, backend_calls, backend_reply, result, users,
          ops>>

----------------------------------------------------------------------------
(* Bounds of the model. *)

\* longest requested attribute list
MaxAttrs == 2
\* longest group list supplied with a user
MaxGroups == 2
\* most children of an And / Or filter
MaxChildren == 2
\* longest list of records the backend returns
MaxUsers == 2

----------------------------------------------------------------------------
(* Option, Result, panic. *)

None == [some |-> FALSE]
Some(v) == [some |-> TRUE, value |-> v]

Ok(v) == [ok |-> TRUE, value |-> v]
Err(c, m) == [ok |-> FALSE, code |-> c, message |-> m]

\* the outcome of a call that panicked instead of returning
Panic == [some |-> FALSE, panic |-> TRUE]
IsPanic(r) == "panic" \in DOMAIN r

\* a variable no call has written yet
Unset == [unset |-> TRUE]

----------------------------------------------------------------------------
(* Text. *)

UpperCase == "ABCDEFGHIJKLMNOPQRSTUVWXYZ"
LowerCase == "abcdefghijklmnopqrstuvwxyz"

CharAt(s, i) == SubSeq(s, i, i)

\* u8::to_ascii_lowercase: 'A'..'Z' map to 'a'..'z', every other byte to itself
LowerChar(c) ==
    LET I == {i \in 1..Len(UpperCase) : CharAt(UpperCase, i) = c}
    IN  IF I = {} THEN c ELSE CharAt(LowerCase, CHOOSE i \in I : TRUE)

RECURSIVE to_ascii_lowercase(_)
to_ascii_lowercase(s) ==
    IF s = "" THEN ""
    ELSE LowerChar(CharAt(s, 1)) \o to_ascii_lowercase(SubSeq(s, 2, Len(s)))

\* the {:?} rendering of a string without characters that need escaping
Debug(s) == "\"" \o s \o "\""

\* str::split(c): the pieces of s between the occurrences of the character c
RECURSIVE Split(_, _)
Split(s, c) ==
    LET I == {i \in 1..Len(s) : CharAt(s, i) = c}
    IN  IF I = {} THEN <<s>>
        ELSE LET i == CHOOSE i \in I : \A j \in I : i <= j
             IN  <<SubSeq(s, 1, i - 1)>> \o Split(SubSeq(s, i + 1, Len(s)), c)

\* the sequences over S of length at most n
SeqUpTo(S, n) == UNION {[1..k -> S] : k \in 0..n}

----------------------------------------------------------------------------
(* Configuration: LdapInfo and Schema. *)

ldap_info ==
    [base_dn |-> << <<"dc", "example">>, <<"dc", "com">> >>,
     base_dn_str |-> "dc=example,dc=com",
     ignored_user_attributes |-> {"ignoredattr"}]

\* the custom attributes the schema declares
schema == {"first_name", "last_name"}

----------------------------------------------------------------------------
(* Users and groups. *)

NoAttributes == [n \in {} |-> <<>>]

Users ==
    { [user_id |-> "alice", uuid |-> "a1", email |-> "alice@example.com",
       display_name |-> Some("Alice"),
       creation_date |-> [date |-> "2024-01-02", time |-> "03:04:05"],
       attributes |-> [n \in {"first_name", "avatar"} |->
                          IF n = "first_name" THEN <<"Al">> ELSE <<"JPG">>]],
      [user_id |-> "bob", uuid |-> "b2", email |-> "",
       display_name |-> None,
       creation_date |-> [date |-> "2023-12-31", time |-> "23:59:59"],
       attributes |-> NoAttributes],
      [user_id |-> "carol", uuid |-> "c3", email |-> "carol@example.com",
       display_name |-> Some(""),
       creation_date |-> [date |-> "2024-02-29", time |-> "00:00:00"],
       attributes |-> [n \in {"first_name", "last_name"} |->
                          IF n = "first_name" THEN <<"">> ELSE <<"Smith">>]] }

GroupDetails == {[group_id |-> 1, display_name |-> "admins"],
                 [group_id |-> 2, display_name |-> "devs"]}

\* Option<&[GroupDetails]>: absent, or a list of at most MaxGroups groups
GroupLists == {None} \cup {Some(g) : g \in SeqUpTo(GroupDetails, MaxGroups)}

----------------------------------------------------------------------------
(* utils.rs: the helpers user.rs imports. *)

\* get_custom_attribute: the values of a custom attribute the schema
\* declares and the user holds, absent otherwise
get_custom_attribute(attrs, attribute_name, sch) ==
    IF attribute_name \in sch /\ attribute_name \in DOMAIN attrs
    THEN Some(attrs[attribute_name])
    ELSE None

\* the first occurrence of each name, comparing names case-insensitively
RECURSIVE UniqueByLowercase(_, _)
UniqueByLowercase(names, seen) ==
    IF names = <<>> THEN <<>>
    ELSE LET l == to_ascii_lowercase(Head(names))
         IN  IF l \in seen THEN UniqueByLowercase(Tail(names), seen)
             ELSE <<Head(names)>> \o UniqueByLowercase(Tail(names), seen \cup {l})

\* expand_attribute_wildcards: a list holding "*" loses every "*" and is
\* united with the keys of all_attribute_keys; any other list is kept as it is
expand_attribute_wildcards(ldap_attributes, all_attribute_keys) ==
    IF \E i \in 1..Len(ldap_attributes) : ldap_attributes[i] = "*"
    THEN UniqueByLowercase(
             SelectSeq(ldap_attributes, LAMBDA x : x # "*") \o all_attribute_keys, {})
    ELSE ldap_attributes

----------------------------------------------------------------------------
(* Attribute projector. *)

\* chrono: Utc.from_utc_datetime(naive).to_rfc3339()
to_rfc3339(naive) == naive.date \o "T" \o naive.time \o "+00:00"

\* variant of MemberOfValues: the groups are rendered last to first
MemberOfValuesReversed(grps, base_dn_str) ==
    IF grps.some
    THEN [i \in 1..Len(grps.value) |->
             "cn=" \o grps.value[Len(grps.value) + 1 - i].display_name
                  \o ",ou=groups," \o base_dn_str]
    ELSE <<>>

\* the "memberof" arm: one rendered group DN per supplied group
MemberOfValues(grps, base_dn_str) ==
    IF grps.some
    THEN [i \in 1..Len(grps.value) |->
             "cn=" \o grps.value[i].display_name \o ",ou=groups," \o base_dn_str]
    ELSE <<>>

Values(v) == [tag |-> "values", values |-> v]
ReturnNone == [tag |-> "return"]
Panicked == [tag |-> "panic"]

\* a `?` applied to an Option: its value, or an early return of None
Try(opt) == IF opt.some THEN Values(opt.value) ELSE ReturnNone

\* the match of get_user_attribute on the lower-cased attribute name
attribute_values(u, a, base_dn_str, grps, sch) ==
    CASE a = "objectclass" ->
            Values(<<"inetOrgPerson", "posixAccount", "mailAccount", "person">>)
      [] a \in {"dn", "distinguishedname"} -> ReturnNone
      [] a \in {"uid", "user_id", "id"} -> Values(<<u.user_id>>)
      [] a \in {"entryuuid", "uuid"} -> Values(<<u.uuid>>)
      [] a \in {"mail", "email"} -> Values(<<u.email>>)
      [] a \in {"givenname", "first_name", "firstname"} ->
            Try(get_custom_attribute(u.attributes, "first_name", sch))
      [] a \in {"sn", "last_name", "lastname"} ->
            Try(get_custom_attribute(u.attributes, "last_name", sch))
      [] a \in {"jpegphoto", "avatar"} ->
            Try(get_custom_attribute(u.attributes, "avatar", sch))
      [] a = "memberof" -> Values(MemberOfValues(grps, base_dn_str))
      [] a \in {"cn", "displayname"} ->
            IF u.display_name.some THEN Values(<<u.display_name.value>>) ELSE ReturnNone
      [] a \in {"creationdate", "creation_date", "createtimestamp", "modifytimestamp"} ->
            Values(<<to_rfc3339(u.creation_date)>>)
      [] a = "1.1" -> ReturnNone
      [] a = "+" -> ReturnNone
      [] a = "*" -> Panicked
      [] OTHER -> ReturnNone

\* variant of CollapseEmpty: a single empty value is kept
CollapseNever(attribute_values_) == Some(attribute_values_)

\* the tail of get_user_attribute: one empty value is no value
CollapseEmpty(attribute_values_) ==
    IF Len(attribute_values_) = 1 /\ attribute_values_[1] = ""
    THEN None
    ELSE Some(attribute_values_)

\* variant of get_user_attribute: "dn" resolves to the entry's DN
get_user_attribute_dn(u, attr, base_dn_str, grps, ignored, sch) ==
    LET a == to_ascii_lowercase(attr)
        r == attribute_values(u, a, base_dn_str, grps, sch)
    IN  CASE a \in {"dn", "distinguishedname"} ->
                Some(<<"uid=" \o u.user_id \o ",ou=people," \o base_dn_str>>)
          [] r.tag = "return" -> None
          [] r.tag = "panic" -> Panic
          [] OTHER -> CollapseEmpty(r.values)

\* get_user_attribute; the ignore-list only silences a warning
get_user_attribute(u, attr, base_dn_str, grps, ignored, sch) ==
    LET a == to_ascii_lowercase(attr)
        r == attribute_values(u, a, base_dn_str, grps, sch)
    IN  CASE r.tag = "return" -> None
          [] r.tag = "panic" -> Panic
          [] OTHER -> CollapseEmpty(r.values)

ALL_USER_ATTRIBUTE_KEYS ==
    <<"objectclass", "uid", "mail", "givenname", "sn", "cn", "jpegPhoto",
      "createtimestamp", "entryuuid">>

expand_user_attribute_wildcards(attrs) ==
    expand_attribute_wildcards(attrs, ALL_USER_ATTRIBUTE_KEYS)

\* the entry's DN
UserDn(u, base_dn_str) == "uid=" \o u.user_id \o ",ou=people," \o base_dn_str

\* filter_map over the expanded attributes: the attributes that have values
RECURSIVE FilterMapAttributes(_, _, _, _, _, _)
FilterMapAttributes(u, expanded, base_dn_str, grps, ignored, sch) ==
    IF expanded = <<>> THEN <<>>
    ELSE LET a == Head(expanded)
             values == get_user_attribute(u, a, base_dn_str, grps, ignored, sch)
             rest == FilterMapAttributes(u, Tail(expanded), base_dn_str, grps, ignored, sch)
         IN  IF values.some THEN <<[atype |-> a, vals |-> values.value]>> \o rest
             ELSE rest

make_ldap_search_user_result_entry(u, base_dn_str, attrs, grps, ignored, sch) ==
    LET expanded_attributes == expand_user_attribute_wildcards(attrs)
    IN  IF \E i \in 1..Len(expanded_attributes) :
              IsPanic(get_user_attribute(u, expanded_attributes[i], base_dn_str,
                                         grps, ignored, sch))
        THEN Panic
        ELSE [dn |-> UserDn(u, base_dn_str),
              attributes |-> FilterMapAttributes(u, expanded_attributes, base_dn_str,
                                                 grps, ignored, sch)]

----------------------------------------------------------------------------
(* The projector applied to every user, group list and request. *)

\* attribute names a client may request, in the letter case it sends
AttributeNames ==
    {"*", "DN", "distinguishedName", "memberOf", "cn", "mail", "1.1", "givenName", "bogus"}

\* names get_user_attribute is called with directly
DirectAttributeNames ==
    AttributeNames \cup {"objectClass", "uid", "entryUUID", "EMAIL", "sn", "jpegPhoto",
                         "displayName", "createTimestamp", "+", "ignoredattr"}

AttributeLists == SeqUpTo(AttributeNames, MaxAttrs)

InitProject ==
    /\ pc = "project"
    /\ user \in Users
    /\ groups \in GroupLists
    /\ attribute = "" /\ attr_result = Unset
    /\ attributes = <<>> /\ entry = Unset
    /\ ldap_filter = Unset /\ filters = Unset
    /\ request_groups = FALSE /\ base = ""
    /\ backend_calls = <<>> /\ backend_reply = Unset /\ result = Unset
    /\ users = <<>> /\ ops = <<>>

GetUserAttribute(a) ==
    /\ pc = "project"
    /\ pc' = "attribute"
    /\ attribute' = a
    /\ attr_result' = get_user_attribute(user, a, ldap_info.base_dn_str, groups,
                                         ldap_info.ignored_user_attributes, schema)
    /\ UNCHANGED <<user, groups, attributes, entry, ldap_filter, filters,
                   request_groups, base, backend_calls, backend_reply, result, users, ops>>

MakeEntry(attrs) ==
    /\ pc = "project"
    /\ pc' = "entry"
    /\ attributes' = attrs
    /\ entry' = make_ldap_search_user_result_entry(user, ldap_info.base_dn_str, attrs,
                    groups, ldap_info.ignored_user_attributes, schema)
    /\ UNCHANGED <<user, groups, attribute, attr_result, ldap_filter, filters,
                   request_groups, base, backend_calls, backend_reply, result, users, ops>>

NextProject ==
    \/ \E a \in DirectAttributeNames : GetUserAttribute(a)
    \/ \E attrs \in AttributeLists : MakeEntry(attrs)

SpecProject == InitProject /\ [][NextProject]_vars

----------------------------------------------------------------------------
(* utils.rs: field mapping and distinguished names. *)

PrimaryField(c) == [t |-> "PrimaryField", column |-> c]
Attribute(n) == [t |-> "Attribute", name |-> n]
NoMatch == [t |-> "NoMatch"]

\* map_user_field: the UserFieldType of a lower-cased field name
map_user_field(field) ==
    CASE field \in {"uid", "user_id", "id"} -> PrimaryField("UserId")
      [] field \in {"mail", "email"} -> PrimaryField("Email")
      [] field \in {"cn", "displayname"} -> PrimaryField("DisplayName")
      [] field \in {"givenname", "first_name", "firstname"} -> Attribute("first_name")
      [] field \in {"sn", "last_name", "lastname"} -> Attribute("last_name")
      [] field \in {"jpegphoto", "avatar"} -> Attribute("avatar")
      [] field \in {"creationdate", "creation_date", "createtimestamp", "modifytimestamp"} ->
            PrimaryField("CreationDate")
      [] field \in {"entryuuid", "uuid"} -> PrimaryField("Uuid")
      [] OTHER -> NoMatch

\* UserId::new: a user id keeps its text in lower case
UserId_new(s) == to_ascii_lowercase(s)

\* parse_distinguished_name: the (key, value) pairs of "k=v,k=v,..."
parse_distinguished_name(dn) ==
    LET parts == Split(dn, ",")
        pairs == [i \in 1..Len(parts) |-> Split(parts[i], "=")]
    IN  IF \A i \in 1..Len(pairs) : Len(pairs[i]) = 2
        THEN Ok(pairs)
        ELSE Err("InvalidDNSyntax", "Too many elements in distinguished name: " \o Debug(dn))

\* whether the DN ends with the components of the base tree
is_subtree(parts, base_tree) ==
    /\ Len(parts) >= Len(base_tree)
    /\ \A i \in 1..Len(base_tree) :
          parts[Len(parts) - Len(base_tree) + i] = base_tree[i]

\* the id of "<key>=<id>,ou=<ou>,<base_dn>"
get_id_from_distinguished_name(dn, base_tree, base_dn_str, key, ou) ==
    LET parsed == parse_distinguished_name(dn)
    IN  IF ~parsed.ok THEN parsed
        ELSE IF ~is_subtree(parsed.value, base_tree)
        THEN Err("InvalidDNSyntax", "Not a subtree of the base tree")
        ELSE IF /\ Len(parsed.value) = Len(base_tree) + 2
                /\ parsed.value[1][1] = key
                /\ parsed.value[2] = <<"ou", ou>>
        THEN Ok(parsed.value[1][2])
        ELSE Err("InvalidDNSyntax",
                 "Unexpected DN format. Got " \o Debug(dn) \o ", expected: "
                     \o Debug(key \o "=id,ou=" \o ou \o "," \o base_dn_str))

get_user_id_from_distinguished_name(dn, base_tree, base_dn_str) ==
    LET r == get_id_from_distinguished_name(dn, base_tree, base_dn_str, "uid", "people")
    IN  IF r.ok THEN Ok(UserId_new(r.value)) ELSE r

get_group_id_from_distinguished_name(dn, base_tree, base_dn_str) ==
    get_id_from_distinguished_name(dn, base_tree, base_dn_str, "cn", "groups")

----------------------------------------------------------------------------
(* Filter translator. *)

\* UserRequestFilter::from(bool)
FromBool(b) == IF b THEN [type |-> "True"] ELSE [type |-> "False"]

\* SubStringFilter::from(LdapSubstringFilter): the same three parts
SubStringFilter(s) == [initial |-> s.initial, any |-> s.any, final |-> s.final]

\* the {:?} rendering of a filter node of an unsupported kind
DebugFilter(f) == f.kind \o "(" \o Debug(f.field) \o ", " \o Debug(f.value) \o ")"

\* variant of Collect: the last error wins
CollectLastErr(rs) ==
    LET E == {i \in 1..Len(rs) : ~rs[i].ok}
    IN  IF E = {} THEN Ok([i \in 1..Len(rs) |-> rs[i].value])
        ELSE rs[CHOOSE i \in E : \A j \in E : j <= i]

\* iter.collect::<LdapResult<Vec<_>>>(): the first error, or all the values
Collect(rs) ==
    LET E == {i \in 1..Len(rs) : ~rs[i].ok}
    IN  IF E = {} THEN Ok([i \in 1..Len(rs) |-> rs[i].value])
        ELSE rs[CHOOSE i \in E : \A j \in E : i <= j]

\* variant of EqualityMemberOf: a parse error becomes constant-false
EqualityMemberOfDowngraded(info, value) ==
    LET g == get_group_id_from_distinguished_name(
                 to_ascii_lowercase(value), info.base_dn, info.base_dn_str)
    IN  IF g.ok THEN Ok([type |-> "MemberOf", group |-> g.value]) ELSE Ok(FromBool(FALSE))

\* the "memberof" arm of Equality: the `?` hands a parse error to the caller
EqualityMemberOf(info, value) ==
    LET g == get_group_id_from_distinguished_name(
                 to_ascii_lowercase(value), info.base_dn, info.base_dn_str)
    IN  IF g.ok THEN Ok([type |-> "MemberOf", group |-> g.value]) ELSE g

\* variant of EqualityDn: a parse error is handed to the caller
EqualityDnPropagated(info, value) ==
    LET id == get_user_id_from_distinguished_name(
                  to_ascii_lowercase(value), info.base_dn, info.base_dn_str)
    IN  IF id.ok THEN Ok([type |-> "UserId", user_id |-> id.value]) ELSE id

\* the "dn" arm of Equality: a parse error becomes the constant-false filter
EqualityDn(info, value) ==
    LET id == get_user_id_from_distinguished_name(
                  to_ascii_lowercase(value), info.base_dn, info.base_dn_str)
    IN  IF id.ok THEN Ok([type |-> "UserId", user_id |-> id.value])
        ELSE Ok(FromBool(FALSE))

\* the Equality arm of convert_user_filter
ConvertEquality(info, field_, value) ==
    LET field == to_ascii_lowercase(field_)
    IN  CASE field = "memberof" -> EqualityMemberOf(info, value)
          [] field = "objectclass" ->
                Ok(FromBool(to_ascii_lowercase(value) \in
                       {"person", "inetorgperson", "posixaccount", "mailaccount"}))
          [] field = "dn" -> EqualityDn(info, value)
          [] OTHER ->
                LET m == map_user_field(field)
                IN  CASE m = PrimaryField("UserId") ->
                            Ok([type |-> "UserId", user_id |-> UserId_new(value)])
                      [] m.t = "PrimaryField" /\ m # PrimaryField("UserId") ->
                            Ok([type |-> "Equality", column |-> m.column, value |-> value])
                      [] m.t = "Attribute" ->
                            Ok([type |-> "AttributeEquality", name |-> m.name, value |-> value])
                      [] m.t = "NoMatch" -> Ok(FromBool(FALSE))

\* the Present arm of convert_user_filter
ConvertPresent(info, field_) ==
    LET field == to_ascii_lowercase(field_)
    IN  Ok(FromBool(\/ field = "objectclass"
                    \/ field = "dn"
                    \/ field = "distinguishedname"
                    \/ map_user_field(field) # NoMatch))

UnsupportedSubstring(field) ==
    Err("UnwillingToPerform",
        "Unsupported user attribute for substring filter: " \o Debug(field))

\* variant of ConvertSubstring: the uuid field is not refused
ConvertSubstringUuidAllowed(info, field_, substring_filter) ==
    LET field == to_ascii_lowercase(field_)
        m == map_user_field(field)
    IN  CASE m = PrimaryField("UserId") ->
                Ok([type |-> "UserIdSubString", sub |-> SubStringFilter(substring_filter)])
          [] m.t \in {"NoMatch", "Attribute"} \/ m = PrimaryField("CreationDate") ->
                UnsupportedSubstring(field)
          [] OTHER ->
                Ok([type |-> "SubString", column |-> m.column,
                    sub |-> SubStringFilter(substring_filter)])

\* the Substring arm of convert_user_filter
ConvertSubstring(info, field_, substring_filter) ==
    LET field == to_ascii_lowercase(field_)
        m == map_user_field(field)
    IN  CASE m = PrimaryField("UserId") ->
                Ok([type |-> "UserIdSubString", sub |-> SubStringFilter(substring_filter)])
          [] \/ m.t \in {"NoMatch", "Attribute"}
             \/ m = PrimaryField("CreationDate")
             \/ m = PrimaryField("Uuid") ->
                UnsupportedSubstring(field)
          [] OTHER ->
                Ok([type |-> "SubString", column |-> m.column,
                    sub |-> SubStringFilter(substring_filter)])

RECURSIVE convert_user_filter(_, _)
convert_user_filter(info, f) ==
    CASE f.kind \in {"And", "Or"} ->
            LET r == Collect([i \in 1..Len(f.filters) |->
                                 convert_user_filter(info, f.filters[i])])
            IN  IF r.ok THEN Ok([type |-> f.kind, filters |-> r.value]) ELSE r
      [] f.kind = "Not" ->
            LET r == convert_user_filter(info, f.filter)
            IN  IF r.ok THEN Ok([type |-> "Not", filter |-> r.value]) ELSE r
      [] f.kind = "Equality" -> ConvertEquality(info, f.field, f.value)
      [] f.kind = "Present" -> ConvertPresent(info, f.field)
      [] f.kind = "Substring" -> ConvertSubstring(info, f.field, f.sub)
      [] OTHER ->
            Err("UnwillingToPerform", "Unsupported user filter: " \o DebugFilter(f))

----------------------------------------------------------------------------
(* The translator applied to every filter of a bounded set. *)

And(fs) == [kind |-> "And", filters |-> fs]
Or(fs) == [kind |-> "Or", filters |-> fs]
Not(f) == [kind |-> "Not", filter |-> f]
Equality(field, value) == [kind |-> "Equality", field |-> field, value |-> value]
Present(field) == [kind |-> "Present", field |-> field]
Substring(field, s) == [kind |-> "Substring", field |-> field, sub |-> s]
Approx(field, value) == [kind |-> "Approx", field |-> field, value |-> value]
GreaterOrEqual(field, value) == [kind |-> "GreaterOrEqual", field |-> field, value |-> value]

FilterFields ==
    {"uid", "UID", "mail", "cn", "givenName", "uuid", "createTimestamp", "memberOf",
     "objectClass", "DN", "bogus", "ignoredattr", "distinguishedName"}

FilterValues ==
    {"Bob", "UID=Bob,OU=people,DC=example,DC=com", "cn=Admins,ou=groups,dc=example,dc=com",
     "uid=bob", "person", "uid=bob,ou=people,dc=other,dc=com"}

SubstringFilters ==
    {[initial |-> Some("a"), any |-> <<>>, final |-> None],
     [initial |-> None, any |-> <<"b">>, final |-> Some("c")]}

LeafFilters ==
    {Equality(f, v) : f \in FilterFields, v \in FilterValues}
    \cup {Present(f) : f \in FilterFields}
    \cup {Substring(f, s) : f \in FilterFields, s \in SubstringFilters}
    \cup {Approx("cn", "bob"), GreaterOrEqual("uid", "a")}

\* the children an And / Or / Not is built from: some translate, some fail
\* with errors that differ
ChildFilters ==
    {Present("uid"),
     Equality("mail", "bob@example.com"),
     Substring("uuid", [initial |-> Some("a"), any |-> <<>>, final |-> None]),
     Equality("memberOf", "uid=bob"),
     Approx("cn", "bob"),
     And(<<Present("cn"), Substring("bogus", [initial |-> None, any |-> <<"b">>, final |-> None])>>),
     Not(Equality("DN", "uid=bob,ou=people,dc=example,dc=com"))}

LdapFilters ==
    LeafFilters
    \cup {And(fs) : fs \in SeqUpTo(ChildFilters, MaxChildren)}
    \cup {Or(fs) : fs \in SeqUpTo(ChildFilters, MaxChildren)}
    \cup {Not(f) : f \in ChildFilters}

InitFilter ==
    /\ pc = "filter"
    /\ ldap_filter \in LdapFilters
    /\ filters = Unset
    /\ user = Unset /\ groups = None
    /\ attribute = "" /\ attr_result = Unset
    /\ attributes = <<>> /\ entry = Unset
    /\ request_groups = FALSE /\ base = ""
    /\ backend_calls = <<>> /\ backend_reply = Unset /\ result = Unset
    /\ users = <<>> /\ ops = <<>>

ConvertUserFilter ==
    /\ pc = "filter"
    /\ pc' = "converted"
    /\ filters' = convert_user_filter(ldap_info, ldap_filter)
    /\ UNCHANGED <<user, groups, attribute, attr_result, attributes, entry, ldap_filter,
                   request_groups, base, backend_calls, backend_reply, result, users, ops>>

NextFilter == ConvertUserFilter

SpecFilter == InitFilter /\ [][NextFilter]_vars

----------------------------------------------------------------------------
(* Search orchestrator: get_user_list and convert_users_to_ldap_op. *)

\* filters a search is started with
SearchFilters ==
    {Present("objectClass"),
     Equality("UID", "Bob"),
     And(<<Equality("objectClass", "person"), Equality("memberOf", "cn=admins,ou=groups,dc=example,dc=com")>>),
     Substring("uuid", [initial |-> Some("a"), any |-> <<>>, final |-> None]),
     Or(<<Present("cn"), Equality("memberOf", "uid=bob")>>)}

\* labels a search is started with
SearchBases == {"ou=people,dc=example,dc=com", "dc=example,dc=com"}

\* attribute lists a search asks for
SearchAttributeLists == {<<>>, <<"*">>, <<"memberOf", "DN">>}

\* failures of the backend
BackendErrors == {"database is locked", "connection reset"}

\* records the backend may hold
UserAndGroups ==
    {[user |-> u, groups |-> g] :
        u \in Users,
        g \in {None, Some(<<[group_id |-> 1, display_name |-> "admins"],
                            [group_id |-> 2, display_name |-> "devs"]>>)}}

\* the answers of list_users
UserLists == SeqUpTo(UserAndGroups, MaxUsers)

BackendOk(list) == [ok |-> TRUE, value |-> list]
BackendErr(e) == [ok |-> FALSE, error |-> e]

\* what list_users may answer: a list of records, or a failure
BackendReplies ==
    {BackendOk(list) : list \in UserLists} \cup {BackendErr(e) : e \in BackendErrors}

Init ==
    /\ pc = "idle"
    /\ ldap_filter = Unset /\ filters = Unset
    /\ request_groups = FALSE /\ base = ""
    /\ backend_calls = <<>> /\ backend_reply = Unset /\ result = Unset
    /\ attributes = <<>> /\ users = <<>> /\ ops = <<>>
    /\ user = Unset /\ groups = None
    /\ attribute = "" /\ attr_result = Unset /\ entry = Unset

\* variant of get_user_list: a failed translation lists with no filter
get_user_list_unfiltered(f, rg, b) ==
    LET r == convert_user_filter(ldap_info, f)
    IN  /\ pc = "idle"
        /\ ldap_filter' = f /\ request_groups' = rg /\ base' = b
        /\ filters' = r
        /\ pc' = "list_users"
        /\ backend_calls' = Append(backend_calls,
               [filters |-> IF r.ok THEN Some(r.value) ELSE None, get_groups |-> rg])
        /\ UNCHANGED <<result, backend_reply, attributes, users, ops, user, groups,
                       attribute, attr_result, entry>>

\* get_user_list up to its await: the filter is translated; an error returns
\* at once, a translated filter goes to the backend's list_users
get_user_list(f, rg, b) ==
    LET r == convert_user_filter(ldap_info, f)
    IN  /\ pc = "idle"
        /\ ldap_filter' = f /\ request_groups' = rg /\ base' = b
        /\ filters' = r
        /\ IF r.ok
           THEN /\ pc' = "list_users"
                /\ backend_calls' = Append(backend_calls,
                       [filters |-> Some(r.value), get_groups |-> rg])
                /\ UNCHANGED result
           ELSE /\ pc' = "returned"
                /\ result' = r
                /\ UNCHANGED backend_calls
        /\ UNCHANGED <<backend_reply, attributes, users, ops, user, groups,
                       attribute, attr_result, entry>>

\* map_err of get_user_list: a backend failure becomes an LdapError
MapErr(reply, b) ==
    IF reply.ok THEN Ok(reply.value)
    ELSE Err("Other", "Error while searching user \"" \o b \o "\": " \o reply.error)

\* get_user_list after its await: the backend's answer is the result
list_users_returns(reply) ==
    /\ pc = "list_users"
    /\ pc' = "returned"
    /\ backend_reply' = reply
    /\ result' = MapErr(reply, base)
    /\ UNCHANGED <<ldap_filter, filters, request_groups, base, backend_calls, attributes,
                   users, ops, user, groups, attribute, attr_result, entry>>

\* convert_users_to_ldap_op: the lazy iterator over the records
convert_users_to_ldap_op(attrs) ==
    /\ pc = "returned"
    /\ result.ok
    /\ pc' = "iterating"
    /\ users' = result.value
    /\ attributes' = attrs
    /\ ops' = <<>>
    /\ UNCHANGED <<ldap_filter, filters, request_groups, base, backend_calls,
                   backend_reply, result, user, groups, attribute, attr_result, entry>>

SearchResultEntry(e) == [op |-> "SearchResultEntry", entry |-> e]

NextOp(u) ==
    SearchResultEntry(make_ldap_search_user_result_entry(
        u.user, ldap_info.base_dn_str, attributes, u.groups,
        ldap_info.ignored_user_attributes, schema))

\* variant of IteratorNext: the last record left is taken
IteratorNextFromBack ==
    /\ pc = "iterating"
    /\ users # <<>>
    /\ ops' = Append(ops, NextOp(users[Len(users)]))
    /\ users' = SubSeq(users, 1, Len(users) - 1)
    /\ UNCHANGED <<pc, ldap_filter, filters, request_groups, base, backend_calls,
                   backend_reply, result, attributes, user, groups, attribute,
                   attr_result, entry>>

\* one next() of the iterator: the first record left is mapped to its entry
IteratorNext ==
    /\ pc = "iterating"
    /\ users # <<>>
    /\ ops' = Append(ops, NextOp(Head(users)))
    /\ users' = Tail(users)
    /\ UNCHANGED <<pc, ldap_filter, filters, request_groups, base, backend_calls,
                   backend_reply, result, attributes, user, groups, attribute,
                   attr_result, entry>>

Next ==
    \/ \E f \in SearchFilters, rg \in BOOLEAN, b \in SearchBases : get_user_list(f, rg, b)
    \/ \E reply \in BackendReplies : list_users_returns(reply)
    \/ \E attrs \in SearchAttributeLists : convert_users_to_ldap_op(attrs)
    \/ IteratorNext

Spec == Init /\ [][Next]_vars

----------------------------------------------------------------------------
(* Properties of the attribute projector, checked under SpecProject. *)

\* C1: every attribute of the entry built by make_ldap_search_user_result_entry
\* has at least one value, so that memberOf requested for a user whose group
\* list is absent or empty is left out of the entry.
C1_EmittedValuesNonEmpty ==
    (pc = "entry" /\ ~IsPanic(entry)) =>
        \A i \in 1..Len(entry.attributes) : entry.attributes[i].vals # <<>>

\* C2: no attribute of the built entry has a name that lower-cases to "dn" or
\* "distinguishedname", whatever the request holds ("*", "DN", ...); the DN is
\* in the entry's dn field only.
C2_NoDnAttribute ==
    pc = "entry" =>
        /\ ~IsPanic(entry)
        /\ \A i \in 1..Len(entry.attributes) :
              to_ascii_lowercase(entry.attributes[i].atype) \notin {"dn", "distinguishedname"}
        /\ entry.dn = "uid=" \o user.user_id \o ",ou=people," \o ldap_info.base_dn_str

\* C2 witness: an entry with attributes built for a request naming both the
\* wildcard and the DN.
C2_Witness ==
    /\ pc = "entry"
    /\ \E i \in 1..Len(attributes) : attributes[i] = "*"
    /\ \E i \in 1..Len(attributes) : to_ascii_lowercase(attributes[i]) = "dn"
    /\ ~IsPanic(entry)
    /\ entry.attributes # <<>>

\* the rendered DNs of a group list, one per group, in the list's order
ExpectedMemberOf(g) ==
    [i \in 1..Len(g) |-> "cn=" \o g[i].display_name \o ",ou=groups," \o ldap_info.base_dn_str]

\* C9: for a user supplied with a non-empty group list, memberOf has exactly
\* one value per supplied group, in the supplied order, each of the form
\* cn=<display_name>,ou=groups,<base DN>; both from get_user_attribute and in
\* the entry built for a request naming memberOf.
C9_MemberOfValues ==
    (groups.some /\ groups.value # <<>>) =>
        /\ (pc = "attribute" /\ to_ascii_lowercase(attribute) = "memberof") =>
              attr_result = Some(ExpectedMemberOf(groups.value))
        /\ (pc = "entry" /\ \E i \in 1..Len(attributes) : attributes[i] = "memberOf") =>
              /\ ~IsPanic(entry)
              /\ \E i \in 1..Len(entry.attributes) : entry.attributes[i].atype = "memberOf"
              /\ \A i \in 1..Len(entry.attributes) :
                    entry.attributes[i].atype = "memberOf" =>
                        entry.attributes[i].vals = ExpectedMemberOf(groups.value)

\* C9 witness: memberOf resolved for a user in two different groups.
C9_Witness ==
    /\ pc = "attribute"
    /\ to_ascii_lowercase(attribute) = "memberof"
    /\ groups.some
    /\ Len(groups.value) = 2
    /\ groups.value[1] # groups.value[2]
    /\ attr_result.some
    /\ Len(attr_result.value) = 2

\* C10: get_user_attribute never returns a list of exactly one empty value:
\* mail of a user with an empty email and cn of a user with an empty display
\* name are absent, and so is cn / displayName when the display name is unset.
C10_SingleEmptyValueAbsent ==
    pc = "attribute" =>
        /\ attr_result # Some(<<"">>)
        /\ (to_ascii_lowercase(attribute) \in {"mail", "email"} /\ user.email = "") =>
              attr_result = None
        /\ (/\ to_ascii_lowercase(attribute) \in {"cn", "displayname"}
            /\ user.display_name \in {None, Some("")}) =>
              attr_result = None

\* C10 witness: mail resolved for a user whose email is empty.
C10_Witness ==
    /\ pc = "attribute"
    /\ to_ascii_lowercase(attribute) = "mail"
    /\ user.email = ""
    /\ attr_result = None

----------------------------------------------------------------------------
(* Properties of the filter translator, checked under SpecFilter. *)

\* C3: Substring(field, spec) fails, with UnwillingToPerform, exactly when the
\* lower-cased field maps to a custom attribute, to no field, or to the
\* creation-date or uuid primary field; the user-id primary field gives a
\* user-id substring filter, any other primary field a substring filter on it.
C3_SubstringSupport ==
    (pc = "converted" /\ ldap_filter.kind = "Substring") =>
        LET m == map_user_field(to_ascii_lowercase(ldap_filter.field))
            sub == [initial |-> ldap_filter.sub.initial, any |-> ldap_filter.sub.any,
                    final |-> ldap_filter.sub.final]
        IN  /\ (~filters.ok) <=>
                  \/ m.t \in {"Attribute", "NoMatch"}
                  \/ (m.t = "PrimaryField" /\ m.column \in {"CreationDate", "Uuid"})
            /\ (~filters.ok) => filters.code = "UnwillingToPerform"
            /\ (m.t = "PrimaryField" /\ m.column = "UserId") =>
                  filters = Ok([type |-> "UserIdSubString", sub |-> sub])
            /\ (m.t = "PrimaryField" /\ m.column \notin {"UserId", "CreationDate", "Uuid"}) =>
                  filters = Ok([type |-> "SubString", column |-> m.column, sub |-> sub])

\* C3 witness: a substring filter on the uuid field was refused.
C3_Witness ==
    /\ pc = "converted"
    /\ ldap_filter.kind = "Substring"
    /\ to_ascii_lowercase(ldap_filter.field) = "uuid"
    /\ ~filters.ok
    /\ filters.code = "UnwillingToPerform"

\* the indices of the children of the filter whose own translation fails
FailingChildren ==
    {i \in 1..Len(ldap_filter.filters) :
        ~convert_user_filter(ldap_info, ldap_filter.filters[i]).ok}

\* C4: And(children) / Or(children) fails iff some child's translation fails,
\* with the error of the first failing child; otherwise the result is the same
\* combinator over the children's translations, as many and in the same order.
C4_CombinatorFailFast ==
    (pc = "converted" /\ ldap_filter.kind \in {"And", "Or"}) =>
        LET fs == ldap_filter.filters
            first == CHOOSE i \in FailingChildren : \A j \in FailingChildren : i <= j
        IN  /\ (~filters.ok) <=> (FailingChildren # {})
            /\ FailingChildren # {} =>
                  filters = convert_user_filter(ldap_info, fs[first])
            /\ FailingChildren = {} =>
                  /\ filters.value.type = ldap_filter.kind
                  /\ Len(filters.value.filters) = Len(fs)
                  /\ \A i \in 1..Len(fs) :
                        Ok(filters.value.filters[i]) = convert_user_filter(ldap_info, fs[i])

\* C4 witness: a combinator whose two children fail with different errors.
C4_Witness ==
    /\ pc = "converted"
    /\ ldap_filter.kind = "And"
    /\ Len(ldap_filter.filters) = 2
    /\ FailingChildren = {1, 2}
    /\ convert_user_filter(ldap_info, ldap_filter.filters[1])
          # convert_user_filter(ldap_info, ldap_filter.filters[2])
    /\ ~filters.ok

\* C6: Equality(field, value) with a field that lower-cases to "dn" is never an
\* error: a lower-cased value that parses as a user DN under the base DN gives
\* the user-id filter of the extracted id, any other value the constant-false
\* filter.
C6_EqualityDnNeverFails ==
    (/\ pc = "converted"
     /\ ldap_filter.kind = "Equality"
     /\ to_ascii_lowercase(ldap_filter.field) = "dn") =>
        LET id == get_user_id_from_distinguished_name(
                      to_ascii_lowercase(ldap_filter.value),
                      ldap_info.base_dn, ldap_info.base_dn_str)
        IN  /\ filters.ok
            /\ id.ok => filters.value = [type |-> "UserId", user_id |-> id.value]
            /\ ~id.ok => filters.value = [type |-> "False"]

\* C6 witness: the DN of bob, sent in mixed case, became the user-id filter
\* for bob.
C6_Witness ==
    /\ pc = "converted"
    /\ ldap_filter.kind = "Equality"
    /\ ldap_filter.field = "DN"
    /\ filters = Ok([type |-> "UserId", user_id |-> "bob"])

\* C7: a single Equality(field, value) is an error iff the field lower-cases to
\* "memberof" and the lower-cased value does not parse as a group DN under the
\* base DN, and the error is the parse error itself; a field that the
\* translation resolves through the field mapping to no primary field and no
\* custom attribute gives the constant-false filter, in the ignore-list or not.
C7_EqualityErrors ==
    (pc = "converted" /\ ldap_filter.kind = "Equality") =>
        LET field == to_ascii_lowercase(ldap_filter.field)
            g == get_group_id_from_distinguished_name(
                     to_ascii_lowercase(ldap_filter.value),
                     ldap_info.base_dn, ldap_info.base_dn_str)
        IN  /\ (~filters.ok) <=> (field = "memberof" /\ ~g.ok)
            /\ (~filters.ok) => filters = g
            /\ (/\ field \notin {"memberof", "objectclass", "dn"}
                /\ map_user_field(field) = NoMatch) =>
                  filters = Ok([type |-> "False"])

\* C7 witness: a memberOf equality whose value is no group DN was refused with
\* the parse error.
C7_Witness ==
    /\ pc = "converted"
    /\ ldap_filter.kind = "Equality"
    /\ to_ascii_lowercase(ldap_filter.field) = "memberof"
    /\ ~filters.ok
    /\ filters.code = "InvalidDNSyntax"

----------------------------------------------------------------------------
(* Properties of the search orchestrator, checked under Spec. *)

\* whether text t occurs in text s
Contains(s, t) ==
    \E i \in 1..(Len(s) - Len(t) + 1) : SubSeq(s, i, i + Len(t) - 1) = t

\* C5: list_users is invoked at most once, only after the filter translated,
\* with the translated filter and the unchanged group-fetch flag; a failed
\* translation is returned as it is and the backend is never invoked; a
\* backend failure becomes an error of code Other whose message embeds the
\* label; a backend list is returned unchanged.
C5_BackendInvocation ==
    pc # "idle" =>
        LET t == convert_user_filter(ldap_info, ldap_filter)
        IN  /\ Len(backend_calls) <= 1
            /\ backend_calls # <<>> =>
                  /\ t.ok
                  /\ filters = t
                  /\ backend_calls[1] = [filters |-> Some(t.value),
                                         get_groups |-> request_groups]
            /\ ~t.ok =>
                  /\ backend_calls = <<>>
                  /\ backend_reply = Unset
                  /\ pc = "returned"
                  /\ result = t
            /\ t.ok => (backend_calls # <<>> /\ (pc = "list_users" <=> backend_reply = Unset))
            /\ (backend_reply # Unset /\ backend_reply.ok) =>
                  result = Ok(backend_reply.value)
            /\ (backend_reply # Unset /\ ~backend_reply.ok) =>
                  /\ ~result.ok
                  /\ result.code = "Other"
                  /\ Contains(result.message, base)
                  /\ Contains(result.message, backend_reply.error)

\* C5 witness: the backend failed after being invoked once.
C5_Witness ==
    /\ pc = "returned"
    /\ Len(backend_calls) = 1
    /\ backend_reply # Unset
    /\ ~backend_reply.ok
    /\ ~result.ok

\* C8: convert_users_to_ldap_op yields one entry per record of the backend, in
\* the backend's order: the i-th entry is built from the i-th record and its
\* DN is uid=<user_id of record i>,ou=people,<base DN>, whatever attributes
\* are requested.
C8_OneEntryPerRecord ==
    pc = "iterating" =>
        /\ Len(ops) + Len(users) = Len(result.value)
        /\ \A i \in 1..Len(ops) :
              /\ ops[i].op = "SearchResultEntry"
              /\ ~IsPanic(ops[i].entry)
              /\ ops[i].entry.dn = "uid=" \o result.value[i].user.user_id
                                       \o ",ou=people," \o ldap_info.base_dn_str
              /\ ops[i].entry = make_ldap_search_user_result_entry(
                     result.value[i].user, ldap_info.base_dn_str, attributes,
                     result.value[i].groups, ldap_info.ignored_user_attributes, schema)
        /\ \A i \in 1..Len(users) : users[i] = result.value[Len(ops) + i]

\* C8 witness: the iterator over two records of different users is used up.
C8_Witness ==
    /\ pc = "iterating"
    /\ users = <<>>
    /\ Len(ops) = 2
    /\ result.value[1].user # result.value[2].user
    /\ attributes # <<>>

====
